---- MODULE Spec2Model ----
\* Model of the region group of src/dirty_memory_manager.cc: the accounting of
\* region occupancy into group totals, the throttle / hard pressure latches,
\* the heap of tracked regions, the queue of blocked allocation requests and
\* the releaser task that drains it.
EXTENDS Integers, Sequences, FiniteSets, TLC

\* ---------------------------------------------------------------- bounds

\* Number of region identities (addresses a region object can be at).
MaxRegions == 3
\* Largest occupancy().total_space() of one region.
MaxSpace == 1
\* Number of allocation requests that are ever blocked.
MaxReq == 3
\* Largest amount by which update_hard() drives _hard_total_memory above
\* _total_memory.
MaxExtra == 2

\* std::numeric_limits<size_t>::max(), the "disabled" threshold.  Only its
\* being larger than every reachable total matters; the value is the largest
\* integer the model checker represents.
SizeMax == 2147483647

Regions == 1..MaxRegions
\* The regions the specifications without relocation add to the group; the
\* last address is one a region is relocated to.
Members == 1..(MaxRegions - 1)
Requests == 1..MaxReq
\* std::nullopt of size_tracked_region::_heap_handle.
NoHandle == 0

\* reclaim_config values the group is constructed with:
\* soft_limit_threshold <= throttle_threshold <= hard_throttle_threshold.
Configs ==
    { [soft_limit_threshold |-> 0, throttle_threshold |-> 0, hard_throttle_threshold |-> 1],
      [soft_limit_threshold |-> SizeMax, throttle_threshold |-> SizeMax,
       hard_throttle_threshold |-> SizeMax] }

\* The name the group is constructed with.
GroupName == "rg"

VARIABLES
    total_space,           \* region -> occupancy().total_space()
    evictable_space,       \* region -> evictable_occupancy().total_space()
    _heap_handle,          \* region -> handle of its heap entry, or NoHandle
    _regions,              \* the heap, in ordered-iteration order: <<[h, r]>>
    _total_memory,
    _hard_total_memory,
    _under_pressure,
    _under_soft_pressure,
    _under_hard_pressure,
    _cfg,
    _blocked_requests,     \* queue of blocked requests, front first
    _shutdown_requested,
    releaser,              \* position of the releaser task ("wait": inside
                           \* its call of _relief.wait())
    relief_signalled,      \* _relief: a signal arrived while nobody waited
    reclaim_locked,        \* a tracker_reclaimer_lock is alive
    executed,              \* requests run by execute_one(), in order
    failed,                \* failures delivered by on_request_expiry
    next_req,              \* id of the next request to be blocked
    moving,                \* <<old, new>> between moved() and the handle move
    aborted,               \* an assert() failed: the process is gone
    last_op,               \* the operation that produced this state (and
                           \* the region add() or del() was called with)
    signals,               \* _relief.signal() calls made by that operation
    delta_sum              \* sum of the deltas given to update() so far

region_vars == <<total_space, evictable_space, _heap_handle, _regions, moving>>
memory_vars == <<_total_memory, _hard_total_memory, _under_pressure,
                 _under_soft_pressure, _under_hard_pressure, delta_sum>>
queue_vars == <<_blocked_requests, executed, failed, next_req>>
relief_vars == <<releaser, relief_signalled, signals>>
vars == <<total_space, evictable_space, _heap_handle, _regions, _total_memory,
          _hard_total_memory, _under_pressure, _under_soft_pressure,
          _under_hard_pressure, _cfg, _blocked_requests, _shutdown_requested,
          releaser, relief_signalled, reclaim_locked, executed, failed,
          next_req, moving, aborted, last_op, signals, delta_sum>>

\* ------------------------------------------------------------- helpers

soft_limit_threshold == _cfg.soft_limit_threshold
throttle_threshold == _cfg.throttle_threshold
hard_throttle_threshold == _cfg.hard_throttle_threshold

RECURSIVE SumSpace(_)
SumSpace(S) ==
    IF S = {} THEN 0
    ELSE LET r == CHOOSE x \in S : TRUE IN total_space[r] + SumSpace(S \ {r})

Registered == {r \in Regions : _heap_handle[r] # NoHandle}

\* No operation runs after a failed assert, inside a region's move or
\* inside the releaser's call of _relief.wait().
Idle == ~aborted /\ moving = <<>> /\ releaser # "wait"

under_pressure == _under_pressure

reclaimer_can_block(cfg) == cfg.throttle_threshold # SizeMax

execution_permitted == ~(under_pressure \/ _under_hard_pressure)

\* ---------------------------------------------------------------- heap

\* a comparator that orders the regions by descending evictable occupancy
region_greater(ev, r1, r2) == ev[r1] > ev[r2]

\* region_evictable_occupancy_ascending_less_comparator; ev is what
\* evictable_occupancy().total_space() returns for each region at the call.
region_less(ev, r1, r2) == ev[r1] < ev[r2]

\* region_group_binomial_group_sanity_check: ordered iteration never ascends.
heap_sane(heap, ev) ==
    \A i \in 1..Len(heap) : \A j \in 1..Len(heap) :
        i < j => ~region_less(ev, heap[i].r, heap[j].r)

InsertAt(heap, p, e) == SubSeq(heap, 1, p - 1) \o <<e>> \o SubSeq(heap, p, Len(heap))
RemoveAt(s, p) == SubSeq(s, 1, p - 1) \o SubSeq(s, p + 1, Len(s))

\* The handle of a pushed entry: the lowest one no entry uses.
FreeHandle(heap) ==
    LET used == {heap[i].h : i \in 1..Len(heap)}
    IN  CHOOSE h \in 1..(Len(heap) + 1) :
            h \notin used /\ \A g \in 1..(h - 1) : g \in used

\* The heaps that result from linking entry e into heap.  The entry takes a
\* place that keeps the ordered iteration non-ascending; among regions the
\* comparator calls equal the place is the heap's choice.
heap_place(heap, e, ev) ==
    LET ok(p) == /\ \A i \in 1..(p - 1) : ~region_less(ev, heap[i].r, e.r)
                 /\ \A i \in p..Len(heap) : ~region_less(ev, e.r, heap[i].r)
        places == {p \in 1..(Len(heap) + 1) : ok(p)}
    IN  IF places = {}
        THEN {InsertAt(heap, 1, e)}
        ELSE {InsertAt(heap, p, e) : p \in places}

\* _regions.push(child)
heap_push(heap, child, ev) ==
    heap_place(heap, [h |-> FreeHandle(heap), r |-> child], ev)

\* _regions.erase(handle)
heap_erase(heap, handle) ==
    LET p == CHOOSE i \in 1..Len(heap) : heap[i].h = handle
    IN  RemoveAt(heap, p)

\* _regions.increase(handle) / _regions.decrease(handle): the entry is put
\* where its region's new evictable occupancy belongs.
heap_update(heap, handle, ev) ==
    LET p == CHOOSE i \in 1..Len(heap) : heap[i].h = handle
    IN  heap_place(RemoveAt(heap, p), heap[p], ev)

\* _regions.top()
heap_top(heap) == heap[1].r

\* nullptr of get_largest_region().
NoRegion == 0

\* region_group::top_region_evictable_space
top_region_evictable_space ==
    IF _regions = <<>> THEN 0 ELSE evictable_space[heap_top(_regions)]

\* region_group::get_largest_region
get_largest_region ==
    IF _regions = <<>> THEN NoRegion ELSE heap_top(_regions)

\* ------------------------------------------------------- relief signal

\* k calls of _relief.signal() in one operation.  A signal wakes the releaser
\* when it waits; with nobody waiting the condition remembers it, and any
\* number of remembered signals is one wake.
signal_relief(k) ==
    /\ signals' = k
    /\ releaser' = IF k > 0 /\ releaser = "waiting" THEN "running" ELSE releaser
    /\ relief_signalled' =
         IF (k > 0 /\ releaser # "waiting") \/ (k > 1) THEN TRUE ELSE relief_signalled

\* notify_pressure_relieved, called when `relief` holds at the end of update
notify_pressure_relieved(relief) == signal_relief(IF relief THEN 1 ELSE 0)

\* a helper that reports relief whenever the hard total is at or below the
\* threshold, whether or not the group was under hard pressure
do_update_hard_level_triggered(delta, ret) ==
    LET hard == _hard_total_memory + delta IN
    /\ _hard_total_memory' = hard
    /\ IF hard > hard_throttle_threshold
       THEN _under_hard_pressure' = TRUE /\ ret = FALSE
       ELSE _under_hard_pressure' = FALSE /\ ret = TRUE

\* do_update_hard_and_check_relief(delta); ret is the value it returns
do_update_hard_and_check_relief(delta, ret) ==
    LET hard == _hard_total_memory + delta IN
    /\ _hard_total_memory' = hard
    /\ IF hard > hard_throttle_threshold
       THEN _under_hard_pressure' = TRUE /\ ret = FALSE
       ELSE IF _under_hard_pressure
            THEN _under_hard_pressure' = FALSE /\ ret = TRUE
            ELSE _under_hard_pressure' = _under_hard_pressure /\ ret = FALSE

\* The pressure latches of the group.
notify_soft_pressure == _under_soft_pressure' = TRUE
notify_soft_relief == _under_soft_pressure' = FALSE
notify_pressure == _under_pressure' = TRUE
notify_relief == _under_pressure' = FALSE

\* region_group::update_hard
update_hard(delta) ==
    \E ret \in BOOLEAN :
        /\ do_update_hard_and_check_relief(delta, ret)
        /\ notify_pressure_relieved(ret)

\* update that latches the relief but never signals it
update_without_signal(delta) ==
    LET total == _total_memory + delta IN
    /\ _total_memory' = total
    /\ delta_sum' = delta_sum + delta
    /\ IF total > soft_limit_threshold
       THEN notify_soft_pressure
       ELSE notify_soft_relief
    /\ IF total > throttle_threshold
       THEN notify_pressure
       ELSE IF under_pressure
            THEN notify_relief
            ELSE _under_pressure' = _under_pressure
    /\ \E ret \in BOOLEAN : do_update_hard_and_check_relief(delta, ret)
    /\ signal_relief(0)

\* update that signals relief whenever the total is at or below the throttle
\* threshold, not only when the group was under pressure
update_level_triggered(delta) ==
    LET total == _total_memory + delta
        throttle_relief == ~(total > throttle_threshold)
    IN
    /\ _total_memory' = total
    /\ delta_sum' = delta_sum + delta
    /\ IF total > soft_limit_threshold
       THEN notify_soft_pressure
       ELSE notify_soft_relief
    /\ IF total > throttle_threshold
       THEN notify_pressure
       ELSE notify_relief
    /\ \E ret \in BOOLEAN :
        /\ do_update_hard_and_check_relief(delta, ret)
        /\ notify_pressure_relieved(throttle_relief \/ ret)

\* update that keeps its delta from the hard total
update_without_hard(delta) ==
    LET total == _total_memory + delta
        throttle_relief == ~(total > throttle_threshold) /\ under_pressure
    IN
    /\ _total_memory' = total
    /\ delta_sum' = delta_sum + delta
    /\ IF total > soft_limit_threshold
       THEN notify_soft_pressure
       ELSE notify_soft_relief
    /\ IF total > throttle_threshold
       THEN notify_pressure
       ELSE IF under_pressure
            THEN notify_relief
            ELSE _under_pressure' = _under_pressure
    /\ \E ret \in BOOLEAN :
        /\ do_update_hard_and_check_relief(0, ret)
        /\ notify_pressure_relieved(throttle_relief \/ ret)

\* update that puts the group under pressure already at the threshold
update_inclusive_threshold(delta) ==
    LET total == _total_memory + delta
        throttle_relief == ~(total >= throttle_threshold) /\ under_pressure
    IN
    /\ _total_memory' = total
    /\ delta_sum' = delta_sum + delta
    /\ IF total > soft_limit_threshold
       THEN notify_soft_pressure
       ELSE notify_soft_relief
    /\ IF total >= throttle_threshold
       THEN notify_pressure
       ELSE IF under_pressure
            THEN notify_relief
            ELSE _under_pressure' = _under_pressure
    /\ \E ret \in BOOLEAN :
        /\ do_update_hard_and_check_relief(delta, ret)
        /\ notify_pressure_relieved(throttle_relief \/ ret)

\* update that signals the relief once for each source that fired
update_signal_per_source(delta) ==
    LET total == _total_memory + delta
        throttle_relief == ~(total > throttle_threshold) /\ under_pressure
    IN
    /\ _total_memory' = total
    /\ delta_sum' = delta_sum + delta
    /\ IF total > soft_limit_threshold
       THEN notify_soft_pressure
       ELSE notify_soft_relief
    /\ IF total > throttle_threshold
       THEN notify_pressure
       ELSE IF under_pressure
            THEN notify_relief
            ELSE _under_pressure' = _under_pressure
    /\ \E ret \in BOOLEAN :
        /\ do_update_hard_and_check_relief(delta, ret)
        /\ signal_relief((IF throttle_relief THEN 1 ELSE 0) + (IF ret THEN 1 ELSE 0))

\* region_group::update
update(delta) ==
    LET total == _total_memory + delta
        throttle_relief == ~(total > throttle_threshold) /\ under_pressure
    IN
    /\ _total_memory' = total
    /\ delta_sum' = delta_sum + delta
    /\ IF total > soft_limit_threshold
       THEN notify_soft_pressure
       ELSE notify_soft_relief
    /\ IF total > throttle_threshold
       THEN notify_pressure
       ELSE IF under_pressure
            THEN notify_relief
            ELSE _under_pressure' = _under_pressure
    /\ \E ret \in BOOLEAN :
        /\ do_update_hard_and_check_relief(delta, ret)
        /\ notify_pressure_relieved(throttle_relief \/ ret)

\* ------------------------------------------------------ region operations

\* add without the assert: a region that holds a handle is pushed again
add_without_assert(child) ==
    /\ aborted' = aborted
    /\ \E heap \in heap_push(_regions, child, evictable_space) : _regions' = heap
    /\ _heap_handle' = [_heap_handle EXCEPT ![child] = FreeHandle(_regions)]
    /\ update(total_space[child])

\* region_group::add
add(child) ==
    IF _heap_handle[child] # NoHandle
    THEN \* assert(!child->_heap_handle)
         /\ aborted' = TRUE
         /\ signal_relief(0)
         /\ UNCHANGED <<_heap_handle, _regions, memory_vars>>
    ELSE /\ aborted' = aborted
         /\ \E heap \in heap_push(_regions, child, evictable_space) :
                _regions' = heap
         /\ _heap_handle' = [_heap_handle EXCEPT ![child] = FreeHandle(_regions)]
         /\ update(total_space[child])

\* del that forgets to report the region's space to update
del_without_update(child) ==
    IF _heap_handle[child] # NoHandle
    THEN /\ _regions' = heap_erase(_regions, _heap_handle[child])
         /\ _heap_handle' = [_heap_handle EXCEPT ![child] = NoHandle]
         /\ signal_relief(0)
         /\ UNCHANGED memory_vars
    ELSE /\ signal_relief(0)
         /\ UNCHANGED <<_heap_handle, _regions, memory_vars>>

\* del without the test of the handle: the region's space is taken off the
\* totals whether or not the region is in the group
del_unguarded(child) ==
    IF _heap_handle[child] # NoHandle
    THEN /\ _regions' = heap_erase(_regions, _heap_handle[child])
         /\ _heap_handle' = [_heap_handle EXCEPT ![child] = NoHandle]
         /\ update(-total_space[child])
    ELSE /\ update(-total_space[child])
         /\ UNCHANGED <<_heap_handle, _regions>>

\* region_group::del
del(child) ==
    IF _heap_handle[child] # NoHandle
    THEN /\ _regions' = heap_erase(_regions, _heap_handle[child])
         /\ _heap_handle' = [_heap_handle EXCEPT ![child] = NoHandle]
         /\ update(-total_space[child])
    ELSE /\ signal_relief(0)
         /\ UNCHANGED <<_heap_handle, _regions, memory_vars>>

\* moved that leaves the entry of the old address in the heap
moved_without_erase(old_address, new_address, ev) ==
    /\ \E heap \in heap_push(_regions, new_address, ev) : _regions' = heap
    /\ _heap_handle' = [_heap_handle EXCEPT ![old_address] = FreeHandle(_regions)]
    /\ signal_relief(0)
    /\ UNCHANGED memory_vars

\* moved that records the handle of the new entry on the new object itself
\* and leaves the old one without a handle
moved_handle_on_new(old_address, new_address, ev) ==
    LET erased == IF _heap_handle[old_address] # NoHandle
                  THEN heap_erase(_regions, _heap_handle[old_address])
                  ELSE _regions
    IN  /\ \E heap \in heap_push(erased, new_address, ev) : _regions' = heap
        /\ _heap_handle' = [_heap_handle EXCEPT ![old_address] = NoHandle,
                                                ![new_address] = FreeHandle(erased)]
        /\ signal_relief(0)
        /\ UNCHANGED memory_vars

\* moved that counts the relocated region as add does: the space of the
\* region, which the totals hold already, is given to update again
moved_with_update(old_address, new_address, ev) ==
    LET erased == IF _heap_handle[old_address] # NoHandle
                  THEN heap_erase(_regions, _heap_handle[old_address])
                  ELSE _regions
    IN  /\ \E heap \in heap_push(erased, new_address, ev) : _regions' = heap
        /\ _heap_handle' = [_heap_handle EXCEPT ![old_address] = FreeHandle(erased)]
        /\ update(total_space[old_address])

\* region_group::moved; ev is the evictable occupancy the relocated region
\* reports under its new address.  The body calls neither update nor
\* notify_pressure_relieved.
moved(old_address, new_address, ev) ==
    LET erased == IF _heap_handle[old_address] # NoHandle
                  THEN heap_erase(_regions, _heap_handle[old_address])
                  ELSE _regions
    IN  /\ \E heap \in heap_push(erased, new_address, ev) : _regions' = heap
        /\ _heap_handle' = [_heap_handle EXCEPT ![old_address] = FreeHandle(erased)]
        /\ signal_relief(0)
        /\ UNCHANGED memory_vars

Add(child) ==
    /\ Idle
    /\ add(child)
    /\ last_op' = [op |-> "add", r |-> child]
    /\ UNCHANGED <<total_space, evictable_space, moving, _cfg,
                   reclaim_locked, queue_vars, _shutdown_requested>>

Del(child) ==
    /\ Idle
    /\ del(child)
    /\ last_op' = [op |-> "del", r |-> child]
    /\ UNCHANGED <<total_space, evictable_space, moving, _cfg,
                   reclaim_locked, queue_vars, _shutdown_requested, aborted>>

\* A region is relocated: the object at new_address takes over the memory of
\* the one at old_address and tells the group, which runs moved().  (A region
\* tells the group it listens to, the one it was added to: Next draws
\* old_address from Registered; NextStrayMove draws it from all regions.)
Moved(old_address, new_address) ==
    /\ Idle
    /\ old_address # new_address
    /\ _heap_handle[new_address] = NoHandle
    /\ total_space' = [total_space EXCEPT ![new_address] = total_space[old_address],
                                          ![old_address] = 0]
    /\ evictable_space' = [evictable_space EXCEPT
                               ![new_address] = evictable_space[old_address],
                               ![old_address] = 0]
    /\ moved(old_address, new_address, evictable_space')
    /\ moving' = <<old_address, new_address>>
    /\ last_op' = [op |-> "moved", r |-> 0]
    /\ UNCHANGED <<_cfg, reclaim_locked, queue_vars, _shutdown_requested,
                   aborted>>

\* The move of the relocated region goes on after moved() returned: the
\* handle moved() left on the old object is moved to the new one.
MoveHandle ==
    /\ ~aborted
    /\ moving # <<>>
    /\ _heap_handle' = [_heap_handle EXCEPT ![moving[2]] = _heap_handle[moving[1]],
                                            ![moving[1]] = NoHandle]
    /\ moving' = <<>>
    /\ signal_relief(0)
    /\ last_op' = [op |-> "move_handle", r |-> 0]
    /\ UNCHANGED <<total_space, evictable_space, _regions, memory_vars, _cfg,
                   reclaim_locked, queue_vars, _shutdown_requested, aborted>>

\* The allocator changes a region's occupancy by dt (and its evictable part
\* by de); a region that is in the group reports it: the heap entry is
\* updated and update(dt) runs.
OccupancyChange(r, dt, de) ==
    /\ Idle
    /\ <<dt, de>> # <<0, 0>>
    /\ total_space[r] + dt \in 0..MaxSpace
    /\ evictable_space[r] + de \in 0..(total_space[r] + dt)
    /\ total_space' = [total_space EXCEPT ![r] = @ + dt]
    /\ evictable_space' = [evictable_space EXCEPT ![r] = @ + de]
    /\ IF _heap_handle[r] # NoHandle
       THEN /\ \E heap \in heap_update(_regions, _heap_handle[r], evictable_space') :
                   _regions' = heap
            /\ update(dt)
            /\ last_op' = [op |-> "update", r |-> 0]
       ELSE /\ signal_relief(0)
            /\ last_op' = [op |-> "occupancy", r |-> 0]
            /\ UNCHANGED <<_regions, memory_vars>>
    /\ UNCHANGED <<_heap_handle, moving, _cfg, reclaim_locked, queue_vars,
                   _shutdown_requested, aborted>>

\* update_hard(delta) from the owner of the group.  The callers keep the hard
\* total at or above the throttle total, and here within MaxExtra of it.
UpdateHard(delta) ==
    /\ Idle
    /\ (_hard_total_memory + delta) - _total_memory \in 0..MaxExtra
    /\ update_hard(delta)
    /\ last_op' = [op |-> "update_hard", r |-> 0]
    /\ UNCHANGED <<region_vars, _total_memory, _under_pressure,
                   _under_soft_pressure, delta_sum, _cfg, reclaim_locked,
                   queue_vars, _shutdown_requested, aborted>>

\* ------------------------------------------------------- blocked requests

\* a failure that does not carry the group's name
on_request_expiry_unnamed(req) ==
    [req |-> req, error |-> "blocked_requests_timed_out_error", name |-> ""]

\* allocation_queue::on_request_expiry::operator(): the failure the request
\* is resolved with.
on_request_expiry(req) ==
    [req |-> req, error |-> "blocked_requests_timed_out_error", name |-> GroupName]

\* execute_one that takes the newest request
execute_one_from_back ==
    /\ executed' = Append(executed, _blocked_requests[Len(_blocked_requests)])
    /\ _blocked_requests' = SubSeq(_blocked_requests, 1, Len(_blocked_requests) - 1)

\* allocation_queue::execute_one
execute_one ==
    /\ executed' = Append(executed, Head(_blocked_requests))
    /\ _blocked_requests' = Tail(_blocked_requests)

\* An allocation that cannot proceed at once is put at the back of the queue:
\* requests are already waiting, or execution is not permitted.
Enqueue ==
    /\ Idle
    /\ next_req <= MaxReq
    /\ _blocked_requests # <<>> \/ ~execution_permitted
    /\ _blocked_requests' = Append(_blocked_requests, next_req)
    /\ next_req' = next_req + 1
    /\ signal_relief(0)
    /\ last_op' = [op |-> "enqueue", r |-> 0]
    /\ UNCHANGED <<region_vars, memory_vars, _cfg, reclaim_locked, executed,
                   failed, _shutdown_requested, aborted>>

PlaceOf(q) == CHOOSE i \in 1..Len(_blocked_requests) : _blocked_requests[i] = q
InQueue(q) == \E i \in 1..Len(_blocked_requests) : _blocked_requests[i] = q
WasExecuted(q) == \E i \in 1..Len(executed) : executed[i] = q

\* The deadline of queued request q elapses: the queue drops the entry and
\* hands it to on_request_expiry.
Expire(q) ==
    /\ Idle
    /\ InQueue(q)
    /\ _blocked_requests' = RemoveAt(_blocked_requests, PlaceOf(q))
    /\ failed' = failed \cup {on_request_expiry(q)}
    /\ signal_relief(0)
    /\ last_op' = [op |-> "expire", r |-> 0]
    /\ UNCHANGED <<region_vars, memory_vars, _cfg, reclaim_locked, executed,
                   next_req, _shutdown_requested, aborted>>

\* ---------------------------------------------------------------- releaser

\* a releaser that runs a request without asking execution_permitted()
start_releaser_ungated ==
    IF _shutdown_requested
    THEN /\ releaser' = "done"
         /\ UNCHANGED <<_blocked_requests, executed, reclaim_locked>>
    ELSE IF _blocked_requests # <<>>
         THEN /\ executed' = Append(executed, Head(_blocked_requests))
              /\ _blocked_requests' = Tail(_blocked_requests)
              /\ releaser' = "running"
              /\ UNCHANGED reclaim_locked
         ELSE /\ reclaim_locked' = TRUE
              /\ releaser' = "wait"
              /\ UNCHANGED <<_blocked_requests, executed>>

\* a releaser that looks at _shutdown_requested only when it has no work
start_releaser_work_first ==
    IF _blocked_requests # <<>> /\ execution_permitted
    THEN /\ executed' = Append(executed, Head(_blocked_requests))
         /\ _blocked_requests' = Tail(_blocked_requests)
         /\ releaser' = "running"
         /\ UNCHANGED reclaim_locked
    ELSE IF _shutdown_requested
         THEN /\ releaser' = "done"
              /\ UNCHANGED <<_blocked_requests, executed, reclaim_locked>>
         ELSE /\ reclaim_locked' = TRUE
              /\ releaser' = "wait"
              /\ UNCHANGED <<_blocked_requests, executed>>

\* a releaser that goes to wait without blocking the reclaimer
start_releaser_without_lock ==
    IF _shutdown_requested
    THEN /\ releaser' = "done"
         /\ UNCHANGED <<_blocked_requests, executed, reclaim_locked>>
    ELSE IF _blocked_requests # <<>> /\ execution_permitted
         THEN /\ execute_one
              /\ releaser' = "running"
              /\ UNCHANGED reclaim_locked
         ELSE /\ releaser' = "wait"
              /\ UNCHANGED <<_blocked_requests, executed, reclaim_locked>>

\* One turn of the repeat() loop of region_group::start_releaser, up to the
\* call of _relief.wait().
start_releaser ==
    IF _shutdown_requested
    THEN /\ releaser' = "done"
         /\ UNCHANGED <<_blocked_requests, executed, reclaim_locked>>
    ELSE IF _blocked_requests # <<>> /\ execution_permitted
         THEN /\ execute_one
              /\ releaser' = "running"
              /\ UNCHANGED reclaim_locked
         ELSE \* tracker_reclaimer_lock rl(...); _relief.wait() is called
              /\ reclaim_locked' = TRUE
              /\ releaser' = "wait"
              /\ UNCHANGED <<_blocked_requests, executed>>

\* The rest of that turn: _relief.wait() returns its future, ready at once
\* when a signal is remembered; the loop body returns and rl goes out of
\* scope.
relief_wait ==
    /\ IF relief_signalled
       THEN releaser' = "running" /\ relief_signalled' = FALSE
       ELSE releaser' = "waiting" /\ relief_signalled' = relief_signalled
    /\ reclaim_locked' = FALSE

\* The scheduler runs the releaser: after its first yield(), or for the next
\* turn of its loop; a turn that called _relief.wait() goes on without
\* leaving the processor.
ReleaserStep ==
    /\ ~aborted
    /\ moving = <<>>
    /\ \/ /\ releaser \in {"yield", "running"}
          /\ start_releaser
          /\ UNCHANGED relief_signalled
       \/ /\ releaser = "wait"
          /\ relief_wait
          /\ UNCHANGED <<_blocked_requests, executed>>
    /\ signals' = 0
    /\ last_op' = [op |-> "releaser", r |-> 0]
    /\ UNCHANGED <<region_vars, memory_vars, _cfg, failed, next_req,
                   _shutdown_requested, aborted>>

\* The reclaimer of the allocator, when an allocation triggers it and no
\* tracker_reclaimer_lock blocks it, frees space of a region of the group,
\* which the region reports to update.  An allocation can trigger it inside
\* any call, that of _relief.wait() included.
Reclaim(r) ==
    /\ ~aborted
    /\ moving = <<>>
    /\ ~reclaim_locked
    /\ _heap_handle[r] # NoHandle
    /\ total_space[r] > 0
    /\ total_space' = [total_space EXCEPT ![r] = @ - 1]
    /\ evictable_space' =
          [evictable_space EXCEPT ![r] = IF @ > total_space[r] - 1 THEN @ - 1 ELSE @]
    /\ \E heap \in heap_update(_regions, _heap_handle[r], evictable_space') :
           _regions' = heap
    /\ update(-1)
    /\ last_op' = [op |-> "reclaim", r |-> 0]
    /\ UNCHANGED <<_heap_handle, moving, _cfg, reclaim_locked, queue_vars,
                   _shutdown_requested, aborted>>

\* shutdown that sets the flag and does not signal _relief
shutdown_without_signal ==
    /\ _shutdown_requested' = TRUE
    /\ signal_relief(0)

\* region_group::shutdown
shutdown ==
    /\ _shutdown_requested' = TRUE
    /\ signal_relief(1)

Shutdown ==
    /\ Idle
    /\ ~_shutdown_requested
    /\ shutdown
    /\ last_op' = [op |-> "shutdown", r |-> 0]
    /\ UNCHANGED <<region_vars, memory_vars, _cfg, reclaim_locked,
                   queue_vars, aborted>>

\* The future shutdown() returns is _releaser: ready from the start when no
\* releaser was started, and else once the loop has ended.
releaser_future_ready == releaser \in {"none", "done"}
shutdown_complete == _shutdown_requested /\ releaser_future_ready

\* ----------------------------------------------------------- specification

\* region_group::region_group
Init ==
    /\ total_space = [r \in Regions |-> 0]
    /\ evictable_space = [r \in Regions |-> 0]
    /\ _heap_handle = [r \in Regions |-> NoHandle]
    /\ _regions = <<>>
    /\ _total_memory = 0
    /\ _hard_total_memory = 0
    /\ _under_pressure = FALSE
    /\ _under_soft_pressure = FALSE
    /\ _under_hard_pressure = FALSE
    /\ _cfg \in Configs
    /\ _blocked_requests = <<>>
    /\ _shutdown_requested = FALSE
    /\ releaser = IF reclaimer_can_block(_cfg) THEN "yield" ELSE "none"
    /\ relief_signalled = FALSE
    /\ reclaim_locked = FALSE
    /\ executed = <<>>
    /\ failed = {}
    /\ next_req = 1
    /\ moving = <<>>
    /\ aborted = FALSE
    /\ last_op = [op |-> "init", r |-> 0]
    /\ signals = 0
    /\ delta_sum = 0

Next ==
    \/ \E r \in Members : Add(r)
    \/ \E r \in Members : Del(r)
    \/ \E old \in Registered : \E new \in Members : Moved(old, new)
    \/ MoveHandle
    \/ \E r \in Members : \E dt \in -1..1 : \E de \in -1..1 : OccupancyChange(r, dt, de)
    \/ \E d \in {-1, 1} : UpdateHard(d)
    \/ Enqueue
    \/ \E q \in Requests : Expire(q)
    \/ ReleaserStep
    \/ Shutdown

Spec == Init /\ [][Next]_vars

\* The group with its queue and its releaser.  The totals, the pressure
\* flags, the queue and the releaser depend on the regions through the deltas
\* given to update alone, so one region gives them: the first one is added,
\* changed and deleted, and nothing is relocated.
NextReleaser ==
    \/ \E r \in {1} : Add(r)
    \/ \E r \in {1} : Del(r)
    \/ \E r \in {1} : \E dt \in {-1, 1} : OccupancyChange(r, dt, 0)
    \/ \E d \in {-1, 1} : UpdateHard(d)
    \/ Enqueue
    \/ \E q \in Requests : Expire(q)
    \/ ReleaserStep
    \/ Shutdown

ReleaserSpec == Init /\ [][NextReleaser]_vars

\* The same with the reclaimer.
NextReclaim ==
    \/ NextReleaser
    \/ \E r \in {1} : Reclaim(r)

ReclaimSpec == Init /\ [][NextReclaim]_vars

\* The scheduler runs the releaser whenever it is ready: the other
\* operations, each of which runs to completion, only delay it.
FairSpec == ReleaserSpec /\ WF_vars(ReleaserStep)

\* Besides, the deadline of every queued request eventually elapses.
FairSpecExpiry == FairSpec /\ \A q \in Requests : WF_vars(Expire(q))

\* The group under add, del and update alone.
NextAccounting ==
    \/ \E r \in Members : Add(r)
    \/ \E r \in Members : Del(r)
    \/ \E r \in Members : \E dt \in -1..1 : \E de \in -1..1 : OccupancyChange(r, dt, de)

SpecAccounting == Init /\ [][NextAccounting]_vars

\* The totals and the pressure flags under add, del, moved, update and
\* update_hard.
NextPressure ==
    \/ \E r \in Members : Add(r)
    \/ \E r \in Members : Del(r)
    \/ \E old \in Registered : \E new \in Members : Moved(old, new)
    \/ MoveHandle
    \/ \E r \in Members : \E dt \in {-1, 1} : OccupancyChange(r, dt, 0)
    \/ \E d \in {-1, 1} : UpdateHard(d)

PressureSpec == Init /\ [][NextPressure]_vars

\* The heap and the handles under add, del, moved and occupancy changes.
NextRegions ==
    \/ \E r \in Members : Add(r)
    \/ \E r \in Members : Del(r)
    \/ \E old \in Registered : \E new \in Members : Moved(old, new)
    \/ MoveHandle
    \/ \E r \in Members : \E dt \in -1..1 : \E de \in -1..1 : OccupancyChange(r, dt, de)

RegionsSpec == Init /\ [][NextRegions]_vars

\* A group constructed with a finite throttle threshold.
InitThrottled == Init /\ reclaimer_can_block(_cfg)

\* Relocation among all the addresses, beside add, del and occupancy changes
\* (the evictable space of a region is all of its space), on a group with a
\* finite throttle threshold.  A region that is relocated is one the group
\* listens to.
NextRelocation ==
    \/ \E r \in Regions : Add(r)
    \/ \E r \in Regions : Del(r)
    \/ \E old \in Registered : \E new \in Regions : Moved(old, new)
    \/ MoveHandle
    \/ \E r \in Regions : \E dt \in {-1, 1} : OccupancyChange(r, dt, dt)

RelocationSpec == InitThrottled /\ [][NextRelocation]_vars

\* What moved() on a region that is not in the group has put into the heap
\* without telling update: the space of the registered regions the totals
\* do not hold.
Drift == SumSpace(Registered) - _total_memory

\* The same with moved() called for any old address, in the group or not.
\* The space that moved() registers for regions that were not in the group
\* is capped at MaxSpace.
NextStrayMove ==
    \/ \E r \in Regions : Add(r)
    \/ \E r \in Regions : Del(r)
    \/ \E old \in Regions : \E new \in Regions :
          /\ old \in Registered \/ Drift + total_space[old] <= MaxSpace
          /\ Moved(old, new)
    \/ MoveHandle
    \/ \E r \in Regions : \E dt \in {-1, 1} : OccupancyChange(r, dt, dt)

StrayMoveSpec == InitThrottled /\ [][NextStrayMove]_vars

\* ================================================================ claims

\* An operation that ran update(): add and del of a registered region, and
\* an occupancy change a registered region reports.
UpdateStep == last_op'.op \in {"add", "del", "update"} /\ ~aborted' /\ vars' # vars

\* C1: after any sequence of add, del and update calls, total_memory is the
\* sum of the deltas given to update since construction, and is the sum of
\* occupancy().total_space() over the regions that hold a handle.
C1_TotalIsSumOfRegistered ==
    /\ _total_memory = delta_sum
    /\ _total_memory = SumSpace(Registered)

\* C1 witness: a del left another region registered with space in use.
C1_Witness ==
    /\ last_op.op = "del"
    /\ Registered # {}
    /\ _total_memory > 0
    /\ \E r \in Regions \ Registered : total_space[r] > 0

\* C2 as stated: with a finite throttle threshold, an update that takes
\* total_memory from at or below the threshold to above it turns
\* execution_permitted() from true to false; an update that brings it back to
\* at or below signals relief exactly once; an update made while the group is
\* relieved signals relief zero times.
C2_Original ==
    [][ (UpdateStep /\ throttle_threshold # SizeMax) =>
          /\ (_total_memory <= throttle_threshold /\ _total_memory' > throttle_threshold)
                => (execution_permitted /\ ~execution_permitted')
          /\ (_total_memory > throttle_threshold /\ _total_memory' <= throttle_threshold)
                => signals' = 1
          /\ (~under_pressure /\ ~_under_hard_pressure) => signals' = 0 ]_vars

\* C2 amended: the upward crossing puts the group under throttle pressure and
\* leaves execution_permitted() false; it turns execution_permitted() from
\* true to false when the group was not under hard pressure before.  The two
\* statements on the relief signal hold as stated.
C2_ThrottleEdges ==
    [][ (UpdateStep /\ throttle_threshold # SizeMax) =>
          /\ (_total_memory <= throttle_threshold /\ _total_memory' > throttle_threshold)
                => /\ ~under_pressure /\ _under_pressure'
                   /\ ~execution_permitted'
                   /\ ~_under_hard_pressure => execution_permitted
          /\ (_total_memory > throttle_threshold /\ _total_memory' <= throttle_threshold)
                => signals' = 1
          /\ (~under_pressure /\ ~_under_hard_pressure) => signals' = 0 ]_vars

\* C2 witness: an update brought the total back under the threshold, relief
\* was signalled once and execution is permitted again.
C2_Witness ==
    /\ last_op.op = "update"
    /\ signals = 1
    /\ _total_memory <= throttle_threshold
    /\ execution_permitted
    /\ _hard_total_memory = _total_memory

\* C3: a request is executed only by a turn of the releaser taken while
\* shutdown is not requested, the queue is not empty and
\* execution_permitted() holds, and that turn executes exactly the one
\* request at the front.
C3_ReleaserGate ==
    [][ executed' # executed =>
          /\ last_op'.op = "releaser"
          /\ ~_shutdown_requested
          /\ _blocked_requests # <<>>
          /\ execution_permitted
          /\ executed' = Append(executed, Head(_blocked_requests))
          /\ _blocked_requests' = Tail(_blocked_requests) ]_vars

\* C3 witness: the releaser executed a request and then went to wait with a
\* request queued, because execution is not permitted.
C3_Witness ==
    /\ executed # <<>>
    /\ releaser = "waiting"
    /\ _blocked_requests # <<>>
    /\ ~execution_permitted

\* C4: requests are executed in arrival order (request ids count arrivals):
\* the executed requests are in ascending order, and no request that is
\* still queued arrived before one that was executed.
C4_Fifo ==
    /\ \A i \in 1..Len(executed) : \A j \in 1..Len(executed) :
          i < j => executed[i] < executed[j]
    /\ \A i \in 1..Len(executed) : \A j \in 1..Len(_blocked_requests) :
          executed[i] < _blocked_requests[j]

\* C4 witness: two requests were executed around one that expired.
C4_Witness ==
    /\ Len(executed) >= 2
    /\ \E f \in failed : executed[1] < f.req /\ f.req < executed[2]

\* C5: with the releaser started, while shutdown is never requested (and the
\* process runs) and execution_permitted() holds from some point on, every
\* queued request eventually leaves the queue, executed or expired; and an
\* operation that makes execution_permitted() true while the releaser waits
\* on the relief condition wakes it.
C5_NoLostWakeup ==
    /\ \A q \in Requests :
          ([](~_shutdown_requested /\ ~aborted) /\ <>[]execution_permitted)
              => (InQueue(q) ~> ~InQueue(q))
    /\ [][ (~execution_permitted /\ execution_permitted' /\ releaser = "waiting")
              => releaser' = "running" ]_vars

\* C5 witness: an update relieved the pressure and its signal woke the
\* waiting releaser, with a request queued.
C5_Witness ==
    /\ last_op.op = "update"
    /\ signals = 1
    /\ ~relief_signalled
    /\ releaser = "running"
    /\ execution_permitted
    /\ _blocked_requests # <<>>
    /\ ~_shutdown_requested

\* C6: a request whose deadline elapses in the queue leaves the queue and is
\* failed with blocked_requests_timed_out_error carrying the group's name;
\* it is not executed, before or after; no request is resolved twice; the
\* expiry changes neither the releaser's position nor the totals and
\* pressure flags.
C6_Expiry ==
    /\ [](\A f \in failed :
            /\ f.error = "blocked_requests_timed_out_error"
            /\ f.name = GroupName
            /\ ~WasExecuted(f.req)
            /\ ~InQueue(f.req))
    /\ [](\A i \in 1..Len(executed) : \A j \in 1..Len(executed) :
            i # j => executed[i] # executed[j])
    /\ [](\A q \in Requests : ~(WasExecuted(q) /\ InQueue(q)))
    /\ [][ failed' # failed =>
            /\ \E q \in Requests :
                  /\ InQueue(q)
                  /\ failed' = failed \cup
                        {[req |-> q, error |-> "blocked_requests_timed_out_error",
                          name |-> GroupName]}
                  /\ _blocked_requests' = RemoveAt(_blocked_requests, PlaceOf(q))
            /\ UNCHANGED <<releaser, relief_signalled, executed, memory_vars,
                           _shutdown_requested>> ]_vars

\* C6 witness: the request in the middle of the queue expired while the
\* releaser waited.
C6_Witness ==
    /\ last_op.op = "expire"
    /\ \E f \in failed : f.req = 2
    /\ _blocked_requests = <<1, 3>>
    /\ releaser = "waiting"

\* C7: once shutdown() was called on a group with a releaser, the releaser
\* eventually terminates (unless the process aborts), which is when the
\* future shutdown() returned resolves; the releaser terminates only in a
\* turn of its own that sees _shutdown_requested.
C7_ShutdownTerminates ==
    /\ (_shutdown_requested /\ releaser # "none") ~> (releaser = "done" \/ aborted)
    /\ [](releaser = "done" => _shutdown_requested)
    /\ []((shutdown_complete /\ _cfg.throttle_threshold # SizeMax) => releaser = "done")
    /\ [][ (releaser # "done" /\ releaser' = "done")
              => (_shutdown_requested /\ last_op'.op = "releaser") ]_vars

\* C7 witness: the releaser terminated and shutdown completed with requests
\* still queued and the group under pressure.
C7_Witness ==
    /\ shutdown_complete
    /\ releaser = "done"
    /\ _blocked_requests # <<>>
    /\ ~execution_permitted

HasEntry(r) == \E i \in 1..Len(_regions) : _regions[i].r = r

\* Every entry of the heap is designated by the handle of exactly one region
\* and every handle designates an entry.
HandlesMatchEntries ==
    /\ \A i \in 1..Len(_regions) :
          Cardinality({r \in Regions : _heap_handle[r] = _regions[i].h}) = 1
    /\ \A r \in Registered : \E i \in 1..Len(_regions) : _regions[i].h = _heap_handle[r]
    /\ \A i \in 1..Len(_regions) : \A j \in 1..Len(_regions) :
          i # j => _regions[i].h # _regions[j].h /\ _regions[i].r # _regions[j].r

\* C9 as stated: in every state add, del and moved reach, a region's handle
\* is absent iff the region has no entry in the heap, and every entry is
\* designated by the handle of exactly one region.
C9_Original ==
    /\ HandlesMatchEntries
    /\ \A r \in Regions : (_heap_handle[r] = NoHandle) <=> ~HasEntry(r)

\* C9 amended: the handles and the entries always match one to one; a
\* region's handle is absent iff it has no entry, except between moved()
\* and the move of the handle that follows it, when the old object holds the
\* handle of the entry of the new one.
C9_HandlesAndEntries ==
    /\ HandlesMatchEntries
    /\ moving = <<>> =>
          \A r \in Regions :
              /\ (_heap_handle[r] = NoHandle) <=> ~HasEntry(r)
              /\ _heap_handle[r] # NoHandle =>
                    \E i \in 1..Len(_regions) :
                        _regions[i].r = r /\ _regions[i].h = _heap_handle[r]
    /\ moving # <<>> =>
          /\ _heap_handle[moving[2]] = NoHandle
          /\ \E i \in 1..Len(_regions) :
                _regions[i].r = moving[2] /\ _regions[i].h = _heap_handle[moving[1]]
          /\ ~HasEntry(moving[1])

\* C9 witness: a relocation completed beside another registered region.
C9_Witness ==
    /\ last_op.op = "move_handle"
    /\ Len(_regions) >= 1
    /\ \E r \in Regions : _heap_handle[r] = NoHandle /\ total_space[r] = 0

\* C10: add on a region that holds a handle fails its assert and changes
\* neither the heap nor the handles nor the totals; add on a region without
\* a handle inserts one entry, for that region, records its handle on the
\* region and applies update(+total_space).
C10_Add ==
    [][ (last_op'.op = "add" /\ ~aborted) =>
          LET child == last_op'.r IN
          IF _heap_handle[child] # NoHandle
          THEN /\ aborted'
               /\ UNCHANGED <<_regions, _heap_handle, memory_vars>>
          ELSE /\ ~aborted'
               /\ Len(_regions') = Len(_regions) + 1
               /\ \E p \in 1..Len(_regions') :
                     /\ _regions'[p].r = child
                     /\ _regions'[p].h = _heap_handle'[child]
                     /\ _regions = RemoveAt(_regions', p)
               /\ \A r \in Regions \ {child} : _heap_handle'[r] = _heap_handle[r]
               /\ _total_memory' = _total_memory + total_space[child]
               /\ _hard_total_memory' = _hard_total_memory + total_space[child]
               /\ delta_sum' = delta_sum + total_space[child] ]_vars

\* C10 witness: add was called on a region that holds a handle and has space
\* in use, and the assert failed.
C10_Witness ==
    /\ aborted
    /\ last_op.op = "add"
    /\ _heap_handle[last_op.r] # NoHandle
    /\ total_space[last_op.r] > 0

\* C11: del on a region that holds a handle removes its entry from the heap,
\* clears the handle and applies update(-total_space); del on a region
\* without a handle changes neither the heap nor the handles nor the totals
\* nor the pressure flags and signals no relief; after either the region
\* holds no handle, so a second del of it is the no-op.
C11_Del ==
    [][ last_op'.op = "del" =>
          LET child == last_op'.r IN
          /\ _heap_handle'[child] = NoHandle
          /\ IF _heap_handle[child] # NoHandle
             THEN /\ \E p \in 1..Len(_regions) :
                        /\ _regions[p].h = _heap_handle[child]
                        /\ _regions[p].r = child
                        /\ _regions' = RemoveAt(_regions, p)
                  /\ _heap_handle' = [_heap_handle EXCEPT ![child] = NoHandle]
                  /\ _total_memory' = _total_memory - total_space[child]
                  /\ _hard_total_memory' = _hard_total_memory - total_space[child]
                  /\ delta_sum' = delta_sum - total_space[child]
                  /\ _under_pressure' = (_total_memory' > throttle_threshold)
                  /\ _under_soft_pressure' = (_total_memory' > soft_limit_threshold)
                  /\ _under_hard_pressure' =
                        (_hard_total_memory' > hard_throttle_threshold)
                  /\ signals' = IF \/ under_pressure /\ ~_under_pressure'
                                   \/ _under_hard_pressure /\ ~_under_hard_pressure'
                                THEN 1 ELSE 0
             ELSE /\ UNCHANGED <<_regions, _heap_handle, memory_vars, releaser,
                                 relief_signalled>>
                  /\ signals' = 0 ]_vars

\* C11 witness: del was called on a region with space in use that holds no
\* handle, beside a registered region, and the totals count only the latter.
C11_Witness ==
    /\ last_op.op = "del"
    /\ total_space[last_op.r] > 0
    /\ Registered # {}
    /\ _total_memory = SumSpace(Registered)
    /\ signals = 0

\* The place of the entry of region r in heap.
EntryOf(heap, r) == CHOOSE i \in 1..Len(heap) : heap[i].r = r

\* C12: moved changes neither total_memory nor hard_total_memory nor the
\* pressure flags, applies no delta, signals no relief and leaves the
\* releaser where it is; the entries of the other regions stay in the heap,
\* with their handles, in the order they had.
C12_MovedFrame ==
    [][ last_op'.op = "moved" =>
          LET old == moving'[1]
              new == moving'[2]
              others == IF _heap_handle[old] # NoHandle
                        THEN RemoveAt(_regions, EntryOf(_regions, old))
                        ELSE _regions
          IN  /\ UNCHANGED <<_total_memory, _hard_total_memory, _under_pressure,
                             _under_soft_pressure, _under_hard_pressure, delta_sum,
                             releaser, relief_signalled>>
              /\ signals' = 0
              /\ RemoveAt(_regions', EntryOf(_regions', new)) = others
              /\ \A r \in Regions \ {old, new} : _heap_handle'[r] = _heap_handle[r] ]_vars

\* C12 witness: a region with space in use was relocated beside another
\* registered region, the group being under pressure.
C12_Witness ==
    /\ last_op.op = "moved"
    /\ Len(_regions) >= 2
    /\ total_space[moving[2]] > 0
    /\ _under_pressure
    /\ _total_memory = SumSpace({_regions[i].r : i \in 1..Len(_regions)})

\* Every handle a region holds designates an entry of the heap, and no two
\* regions hold the same handle.
NoDanglingHandle ==
    /\ \A r \in Registered : \E i \in 1..Len(_regions) : _regions[i].h = _heap_handle[r]
    /\ \A r1 \in Registered : \A r2 \in Registered :
          r1 # r2 => _heap_handle[r1] # _heap_handle[r2]

\* C13 as stated: when moved returns, the new identity holds the handle that
\* designates its entry and the old identity holds no handle.
C13_Original ==
    last_op.op = "moved" =>
        /\ _heap_handle[moving[1]] = NoHandle
        /\ \E i \in 1..Len(_regions) :
              _regions[i].r = moving[2] /\ _regions[i].h = _heap_handle[moving[2]]

\* C13 amended: moved on an old identity that held a handle removes its
\* entry and inserts one for the new identity; when moved returns the OLD
\* identity holds the handle of that entry and the new one holds none; the
\* move of the region that called moved then carries the handle over to the
\* new identity, before any other operation on the group; at no time does a
\* region hold a handle that designates no entry, or two regions the same
\* handle.
C13_MovedHandle ==
    /\ [][ (last_op'.op = "moved" /\ _heap_handle[moving'[1]] # NoHandle) =>
              LET old == moving'[1]
                  new == moving'[2]
              IN  /\ \A i \in 1..Len(_regions') :
                        /\ _regions'[i].r # old
                        /\ _regions'[i].h = _heap_handle[old] => _regions'[i].r = new
                  /\ Len(_regions') = Len(_regions)
                  /\ _regions'[EntryOf(_regions', new)].h = _heap_handle'[old]
                  /\ _heap_handle'[new] = NoHandle ]_vars
    /\ [][ last_op'.op = "move_handle" =>
              LET old == moving[1]
                  new == moving[2]
              IN  /\ _heap_handle'[old] = NoHandle
                  /\ _heap_handle'[new] = _heap_handle[old]
                  /\ _regions'[EntryOf(_regions', new)].h = _heap_handle'[new]
                  /\ _regions' = _regions ]_vars
    /\ [][ moving # <<>> => last_op'.op = "move_handle" ]_vars
    /\ []NoDanglingHandle

\* C13 witness: moved has returned for a region that held a handle, beside
\* another registered region: the old identity holds the handle of the entry
\* of the new one.
C13_Witness ==
    /\ last_op.op = "moved"
    /\ Len(_regions) >= 2
    /\ _heap_handle[moving[1]] # NoHandle
    /\ _heap_handle[moving[2]] = NoHandle
    /\ _regions[EntryOf(_regions, moving[2])].h = _heap_handle[moving[1]]

\* The regions that have an entry in the heap.
Tracked == {_regions[i].r : i \in 1..Len(_regions)}

\* C14: get_largest_region() returns a region of the heap whose evictable
\* occupancy is the largest among the regions of the heap, and
\* top_region_evictable_space() returns that occupancy; on an empty heap they
\* return nullptr and 0; between operations the regions of the heap are the
\* ones that hold a handle and the sanity check of the heap passes; an add
\* of a region whose evictable occupancy exceeds the largest one makes that
\* region the result.
C14_PeekMax ==
    /\ [](IF Tracked = {}
          THEN get_largest_region = NoRegion /\ top_region_evictable_space = 0
          ELSE /\ get_largest_region \in Tracked
               /\ top_region_evictable_space = evictable_space[get_largest_region]
               /\ \A r \in Tracked : evictable_space[r] <= top_region_evictable_space)
    /\ [](moving = <<>> => Tracked = Registered)
    /\ []heap_sane(_regions, evictable_space)
    /\ [][ (last_op'.op = "add" /\ ~aborted'
             /\ evictable_space[last_op'.r] > top_region_evictable_space)
              => get_largest_region' = last_op'.r ]_vars

\* C14 witness: a region that was relocated is the largest one, ahead of a
\* region with less evictable space that was added after it.
C14_Witness ==
    /\ Len(_regions) = 2
    /\ last_op.op = "move_handle"
    /\ evictable_space[get_largest_region] > evictable_space[_regions[2].r]
    /\ _heap_handle[get_largest_region] < _heap_handle[_regions[2].r]
    /\ top_region_evictable_space = MaxSpace

\* C15: a call of update signals the relief condition once when, in that
\* call, the throttle relief fired (the group was under throttle pressure and
\* total_memory is now at or below throttle_threshold) or the hard relief
\* fired (it was under hard pressure and hard_total_memory is now at or
\* below hard_throttle_threshold), also when both fired, and does not signal
\* it otherwise.
C15_CoalescedSignal ==
    [][ UpdateStep =>
          LET throttle_relief ==
                  under_pressure /\ _total_memory' <= throttle_threshold
              hard_relief ==
                  _under_hard_pressure /\ _hard_total_memory' <= hard_throttle_threshold
          IN  signals' = IF throttle_relief \/ hard_relief THEN 1 ELSE 0 ]_vars

\* C15 witness: one update relieved both the throttle and the hard pressure
\* (hard_total_memory is one above total_memory and each came down to its
\* threshold) and signalled once.
C15_Witness ==
    /\ last_op.op = "update"
    /\ signals = 1
    /\ throttle_threshold # SizeMax
    /\ _total_memory = throttle_threshold
    /\ _hard_total_memory = hard_throttle_threshold
    /\ _hard_total_memory > _total_memory
    /\ ~_under_pressure
    /\ ~_under_hard_pressure

\* A call of update_hard.
UpdateHardStep == last_op'.op = "update_hard"

\* C16: do_update_hard_and_check_relief adds delta to hard_total_memory and
\* sets under_hard_pressure when the sum exceeds hard_throttle_threshold; it
\* returns true iff under_hard_pressure held before the call and the sum is
\* at or below the threshold, and then clears the flag, so that it returns
\* false until hard pressure is entered again.  The value it returns shows
\* in the relief signal: update_hard signals iff it is true, and update, when
\* the throttle relief did not fire, signals iff it is true.  update gives
\* it the delta it adds to total_memory; update_hard leaves total_memory
\* and the throttle flags alone.
C16_HardRelief ==
    [][ (UpdateStep \/ UpdateHardStep) =>
          LET returned ==
                  _under_hard_pressure /\ _hard_total_memory' <= hard_throttle_threshold
              throttle_relief ==
                  under_pressure /\ _total_memory' <= throttle_threshold
          IN  /\ _under_hard_pressure' = (_hard_total_memory' > hard_throttle_threshold)
              /\ returned => ~_under_hard_pressure'
              /\ UpdateHardStep =>
                    /\ signals' = IF returned THEN 1 ELSE 0
                    /\ _hard_total_memory' # _hard_total_memory
                    /\ UNCHANGED <<_total_memory, _under_pressure,
                                   _under_soft_pressure, delta_sum>>
              /\ UpdateStep =>
                    /\ _hard_total_memory' - _hard_total_memory
                          = _total_memory' - _total_memory
                    /\ ~throttle_relief => signals' = IF returned THEN 1 ELSE 0 ]_vars

\* C16 witness: update_hard brought hard_total_memory down to the threshold
\* and signalled the relief of the hard pressure, the group staying under
\* throttle pressure.
C16_Witness ==
    /\ last_op.op = "update_hard"
    /\ signals = 1
    /\ ~_under_hard_pressure
    /\ _hard_total_memory = hard_throttle_threshold
    /\ _under_pressure

\* C17 as stated: the reclaimer is blocked while the releaser enters the wait
\* and while it is suspended on the relief condition, and is not blocked
\* while the releaser runs or has terminated.
C17_Original ==
    /\ releaser = "wait" => reclaim_locked
    /\ releaser = "waiting" => reclaim_locked
    /\ releaser \in {"none", "yield", "running", "done"} => ~reclaim_locked

\* C17 amended: the releaser enters the wait only without permitted work
\* and without shutdown, and blocks the reclaimer before it calls
\* _relief.wait(); inside that call no reclaim runs and nothing signals the
\* relief; the lock is released when the turn of the loop returns, so it is
\* held neither while the releaser is suspended nor while it runs nor after
\* it terminated.
C17_ReclaimLock ==
    /\ [](reclaim_locked <=> releaser = "wait")
    /\ [][ (releaser # "wait" /\ releaser' = "wait") =>
              /\ ~_shutdown_requested
              /\ _blocked_requests = <<>> \/ ~execution_permitted
              /\ reclaim_locked' ]_vars
    /\ [][ releaser = "wait" =>
              /\ last_op'.op = "releaser"
              /\ signals' = 0
              /\ releaser' = IF relief_signalled THEN "running" ELSE "waiting"
              /\ ~reclaim_locked'
              /\ UNCHANGED <<memory_vars, region_vars, queue_vars>> ]_vars

\* C17 witness: while the releaser was suspended with a request queued, the
\* reclaimer ran, relieved the pressure and woke it.
C17_Witness ==
    /\ last_op.op = "reclaim"
    /\ signals = 1
    /\ releaser = "running"
    /\ ~relief_signalled
    /\ ~reclaim_locked
    /\ _blocked_requests # <<>>
    /\ execution_permitted

\* C18: between operations the group is under throttle pressure iff
\* total_memory > throttle_threshold and under hard pressure iff
\* hard_total_memory > hard_throttle_threshold, so execution_permitted()
\* holds iff both totals are at or below their thresholds; with both
\* thresholds disabled it holds in every state.
C18_FlagsExact ==
    /\ under_pressure <=> _total_memory > throttle_threshold
    /\ _under_hard_pressure <=> _hard_total_memory > hard_throttle_threshold
    /\ execution_permitted <=>
          /\ _total_memory <= throttle_threshold
          /\ _hard_total_memory <= hard_throttle_threshold
    /\ (throttle_threshold = SizeMax /\ hard_throttle_threshold = SizeMax)
          => execution_permitted

\* C18 witness: update_hard put the group under hard pressure while
\* total_memory is at the throttle threshold: execution is not permitted on
\* account of the hard total alone.
C18_Witness ==
    /\ last_op.op = "update_hard"
    /\ _under_hard_pressure
    /\ ~under_pressure
    /\ _total_memory = throttle_threshold
    /\ Registered # {}
    /\ ~execution_permitted

\* C19: hard_total_memory starts equal to total_memory, and add, del, moved
\* and update change the two by the same amount, so that they are equal
\* after any sequence of these; only update_hard changes their difference:
\* it changes hard_total_memory and leaves total_memory and the throttle and
\* soft pressure flags as they are.
C19_HardTracksTotal ==
    /\ _hard_total_memory = _total_memory
    /\ [][ ~UpdateHardStep =>
              _hard_total_memory' - _total_memory'
                  = _hard_total_memory - _total_memory ]_vars
    /\ [][ UpdateHardStep =>
              /\ _hard_total_memory' # _hard_total_memory
              /\ UNCHANGED <<_total_memory, _under_pressure, _under_soft_pressure>> ]_vars

\* C19 witness: after update_hard took the hard total MaxExtra above the
\* total, a region with space in use was deleted and the difference stayed.
C19_Witness ==
    /\ last_op.op = "del"
    /\ _hard_total_memory = _total_memory + MaxExtra
    /\ _total_memory = delta_sum
    /\ total_space[last_op.r] > 0
    /\ Registered # {}

\* C20 as stated: moved never changes the number of entries of the heap; on
\* an old identity without a handle it changes neither the heap nor the
\* handles; the number of entries changes only in add and del.
C20_Original ==
    /\ [][ last_op'.op = "moved" =>
              /\ Len(_regions') = Len(_regions)
              /\ _heap_handle[moving'[1]] = NoHandle
                    => UNCHANGED <<_regions, _heap_handle>> ]_vars
    /\ [][ Len(_regions') # Len(_regions) => last_op'.op \in {"add", "del"} ]_vars

====
